---- MODULE Spec2Model ----
(***************************************************************************)
(* Model of the Kafka session registry, the bounded message fetch engine   *)
(* and the orphan-group reaper of topiq-explorer                           *)
(* (electron/services/kafka.service.ts and the main-process IPC handlers). *)
(***************************************************************************)
EXTENDS Integers, Sequences, FiniteSets, TLC

\* ------------------------------------------------------------------------
\* Bounds of the model
\* ------------------------------------------------------------------------
MaxHigh == 2
MaxLimit == 2

\* ------------------------------------------------------------------------
\* Program constants
\* ------------------------------------------------------------------------
HardCap == 500
DefaultLimit == 100

\* JS `undefined` / `null` for optional numeric fields
Undefined == 0 - 1

ConnIds == {"c1", "c2"}
Partitions == {0, 1}
\* a partition number no partition of the topic has
NoSuchPartition == Cardinality(Partitions)
FetchIds == {1, 2}
ConnectIds == {1, 2}
DiscIds == {1}
HandleIds == 1..(2 * Cardinality(ConnectIds))
UuidOf == <<"u1", "u2">>

\* `topiq-explorer-consumer-` : the prefix getMessages gives its group ids
TempGroupPrefix ==
  <<"t","o","p","i","q","-","e","x","p","l","o","r","e","r","-",
    "c","o","n","s","u","m","e","r","-">>

\* `kafka-explorer-consumer-` : the prefix the reaper filters on
ReaperPrefix ==
  <<"k","a","f","k","a","-","e","x","p","l","o","r","e","r","-",
    "c","o","n","s","u","m","e","r","-">>

\* String.prototype.startsWith
StartsWith(s, p) == Len(s) >= Len(p) /\ SubSeq(s, 1, Len(p)) = p

\* `topiq-explorer-consumer-${randomUUID()}`
GroupIdOf(n) == TempGroupPrefix \o <<UuidOf[n]>>

\* a group left on the cluster by an earlier release of the application
LegacyGroup == ReaperPrefix \o <<"u0">>
\* a group of some unrelated application
ForeignGroup == <<"b","i","l","l","i","n","g">>

NoGroup == <<>>
EmptyMap == [p \in {} |-> 0]

Min(a, b) == IF a < b THEN a ELSE b

VARIABLES
  instances,            \* KafkaService.instances : id -> session or absent
  tempConsumerGroups,   \* KafkaService.tempConsumerGroups : id -> set or absent
  handleState,          \* admin / producer handles ever created
  nextHandle,
  nextUuid,
  watermarks,           \* cluster: partition -> [low, high] of the topic
  clusterGroups,        \* cluster: consumer groups known to the coordinator
  fetch,                \* getMessages calls
  conn,                 \* kafka:connect handler calls
  disc,                 \* disconnect calls
  lastOp,               \* outcome of the last thin service operation
  crashed,              \* the process crashed and was restarted
  orphans,              \* temp groups that were on the cluster at the crash
  reset,                \* resetOffsets calls
  committed,            \* cluster: group -> topic -> partition -> committed offset
  ipc,                  \* the last call through an IPC handler
  renderer              \* the renderer's topic store and its requests in flight

vars == <<instances, tempConsumerGroups, handleState, nextHandle, nextUuid,
          watermarks, clusterGroups, fetch, conn, disc, lastOp, crashed,
          orphans, reset, committed, ipc, renderer>>

Absent == [present |-> FALSE]

NoInstance ==
  [present |-> FALSE, kafka |-> "none", admin |-> 0, producer |-> 0,
   consumers |-> {}]

\* Map.has / Map.get on the registry
HasInstance(id) == instances[id].present

\* the tracked set of a connection (empty when the map has no entry)
Tracked(id) ==
  IF tempConsumerGroups[id].present THEN tempConsumerGroups[id].groups ELSE {}

\* trackTempGroup
TrackTempGroup(tcg, id, g) ==
  IF tcg[id].present
  THEN [tcg EXCEPT ![id].groups = @ \cup {g}]
  ELSE [tcg EXCEPT ![id] = [present |-> TRUE, groups |-> {g}]]

\* an untrackTempGroup that forgets every group of the connection
UntrackTempGroupAll(tcg, id, g) ==
  IF tcg[id].present
  THEN [tcg EXCEPT ![id].groups = {}]
  ELSE tcg

\* untrackTempGroup
UntrackTempGroup(tcg, id, g) ==
  IF tcg[id].present
  THEN [tcg EXCEPT ![id].groups = @ \ {g}]
  ELSE tcg

\* ------------------------------------------------------------------------
\* getMessages
\* ------------------------------------------------------------------------
FreeFetch ==
  [pc |-> "free", conn |-> "none",
   partition |-> Undefined, fromOffset |-> Undefined,
   fromTimestamp |-> Undefined, limit |-> Undefined,
   maxLimit |-> 0, totalExpected |-> 0,
   topicOffsets |-> EmptyMap, timestampOffsets |-> EmptyMap,
   seekMap |-> EmptyMap,
   groupId |-> NoGroup, consumer |-> "none", run |-> "none",
   pos |-> EmptyMap, seeksIssued |-> {},
   cleanedUp |-> FALSE, resolved |-> FALSE,
   idleTimer |-> FALSE, overallTimer |-> FALSE,
   messages |-> <<>>, messageCount |-> 0,
   lastOffset |-> Undefined, lastPartition |-> Undefined,
   cleanup |-> "none", via |-> "none", hasMoreArg |-> FALSE,
   outcome |-> "none", error |-> "none",
   hasMore |-> FALSE, nextOffset |-> Undefined, nextPartition |-> Undefined,
   settleCalls |-> 0, cleanupBodies |-> 0, deleteGroupsIssued |-> 0]

\* const { partition, fromOffset, fromTimestamp, limit = 100 } = options
LimitOf(limit) == IF limit = Undefined THEN DefaultLimit ELSE limit

\* Math.min(limit, 500)
MaxLimitOf(limit) == Min(LimitOf(limit), HardCap)

\* topicOffsets.filter((o) => o.partition === partition)
TargetPartitions(partition, topicOffsets) ==
  IF partition # Undefined
  THEN {p \in DOMAIN topicOffsets : p = partition}
  ELSE DOMAIN topicOffsets

\* if (fromTimestamp) : 0 and undefined are falsy
Truthy(n) == n # Undefined /\ n # 0

\* the seek map: partition -> { seekOffset, high }
BuildSeekMap(partition, fromOffset, fromTimestamp, topicOffsets, timestampOffsets) ==
  LET targets == TargetPartitions(partition, topicOffsets) IN
  IF Truthy(fromTimestamp)
  THEN [p \in {q \in DOMAIN timestampOffsets :
                 /\ ~(partition # Undefined /\ q # partition)
                 /\ q \in targets} |->
          [seekOffset |-> timestampOffsets[p], high |-> topicOffsets[p].high]]
  ELSE [p \in targets |->
          [seekOffset |-> IF fromOffset # Undefined THEN fromOffset
                          ELSE topicOffsets[p].low,
           high |-> topicOffsets[p].high]]

\* sum of the positive (high - seekOffset) over the seek map
RECURSIVE SumAvailable(_, _)
SumAvailable(sm, D) ==
  IF D = {} THEN 0
  ELSE LET p == CHOOSE x \in D : TRUE
           available == sm[p].high - sm[p].seekOffset
       IN (IF available > 0 THEN available ELSE 0) + SumAvailable(sm, D \ {p})

TotalExpected(sm) == SumAvailable(sm, DOMAIN sm)

\* the short-circuit test of getMessages, made on the unclamped sum
ShortCircuit(total, maxLimit) == total = 0

\* what the call's continuation does once cleanup() has resolved
Settle(f) ==
  IF f.via = "finish"
  THEN [f EXCEPT
          !.settleCalls = @ + 1,
          !.outcome = IF @ = "pending" THEN "resolved" ELSE @,
          !.hasMore = IF f.outcome = "pending" THEN f.hasMoreArg ELSE @,
          !.nextOffset = IF f.outcome # "pending" THEN @
                         ELSE IF f.hasMoreArg /\ f.lastOffset # Undefined
                              THEN f.lastOffset + 1 ELSE Undefined,
          !.nextPartition = IF f.outcome # "pending" THEN @
                            ELSE IF f.hasMoreArg THEN f.lastPartition
                                 ELSE Undefined]
  ELSE [f EXCEPT
          !.settleCalls = @ + 1,
          !.outcome = IF @ = "pending" THEN "rejected" ELSE @,
          !.error = IF f.outcome = "pending" THEN f.via ELSE @]

\* cleanup(): the part that runs synchronously when it is called
CleanupBegin(f, via, hasMore) ==
  LET g == [f EXCEPT !.via = via, !.hasMoreArg = hasMore] IN
  IF f.cleanedUp
  THEN Settle(g)
  ELSE [g EXCEPT !.cleanedUp = TRUE, !.cleanup = "disconnecting",
                 !.cleanupBodies = @ + 1]

\* finish(hasMore) without its `if (resolved) return`
FinishNoGuard(f, hasMore) ==
  CleanupBegin([f EXCEPT !.resolved = TRUE, !.idleTimer = FALSE,
                         !.overallTimer = FALSE], "finish", hasMore)

\* finish(hasMore)
Finish(f, hasMore) ==
  IF f.resolved THEN f
  ELSE CleanupBegin([f EXCEPT !.resolved = TRUE, !.idleTimer = FALSE,
                               !.overallTimer = FALSE], "finish", hasMore)

\* resetIdleTimer()
ResetIdleTimer(f) == [f EXCEPT !.idleTimer = TRUE]

\* a partition filter that lets every record through
FilteredOutNever(partition, msgPartition) == FALSE

\* if (partition !== undefined && msgPartition !== partition) return
FilteredOut(partition, msgPartition) ==
  partition # Undefined /\ msgPartition # partition

\* the eachMessage callback comparing the count with `>` instead of `>=`
EachMessageOffByOne(f, msgPartition, offset) ==
  IF f.resolved THEN f
  ELSE IF FilteredOut(f.partition, msgPartition) THEN f
  ELSE IF f.messageCount > f.maxLimit THEN Finish(f, TRUE)
  ELSE LET g == [f EXCEPT
                   !.messages = Append(@, [partition |-> msgPartition,
                                           offset |-> offset]),
                   !.messageCount = @ + 1,
                   !.lastOffset = offset,
                   !.lastPartition = msgPartition]
       IN IF g.messageCount > g.maxLimit THEN Finish(g, TRUE)
          ELSE IF g.messageCount >= g.totalExpected THEN Finish(g, FALSE)
          ELSE ResetIdleTimer(g)

\* the eachMessage callback
EachMessage(f, msgPartition, offset) ==
  IF f.resolved THEN f
  ELSE IF FilteredOut(f.partition, msgPartition) THEN f
  ELSE IF f.messageCount >= f.maxLimit THEN Finish(f, TRUE)
  ELSE LET g == [f EXCEPT
                   !.messages = Append(@, [partition |-> msgPartition,
                                           offset |-> offset]),
                   !.messageCount = @ + 1,
                   !.lastOffset = offset,
                   !.lastPartition = msgPartition]
       IN IF g.messageCount >= g.maxLimit THEN Finish(g, TRUE)
          ELSE IF g.messageCount >= g.totalExpected THEN Finish(g, FALSE)
          ELSE ResetIdleTimer(g)

\* getInstance without its check
GetInstanceNoCheck(id) == "issued"

\* getInstance: throws 'Not connected to this cluster' without a session
GetInstance(id) == IF HasInstance(id) THEN "issued" ELSE "NotConnected"

\* getMessages is called: getInstance, then await admin.fetchTopicOffsets
FetchStart(k, id, partition, fromOffset, fromTimestamp, limit) ==
  /\ fetch[k].pc = "free"
  /\ \A j \in FetchIds : j < k => fetch[j].pc # "free"
  /\ fetch' = [fetch EXCEPT ![k] =
       IF GetInstance(id) = "issued"
       THEN [FreeFetch EXCEPT !.pc = "precheck", !.conn = id,
               !.partition = partition, !.fromOffset = fromOffset,
               !.fromTimestamp = fromTimestamp, !.limit = limit,
               !.maxLimit = MaxLimitOf(limit), !.outcome = "pending"]
       ELSE [FreeFetch EXCEPT !.pc = "done", !.conn = id,
               !.outcome = "rejected", !.error = "NotConnected",
               !.settleCalls = 1]]
  /\ UNCHANGED <<instances, tempConsumerGroups, handleState, nextHandle,
                 nextUuid, watermarks, clusterGroups, conn, disc, lastOp,
                 crashed, orphans, reset, committed, ipc, renderer>>

\* the watermark read (and, with a start timestamp, the timestamp lookup,
\* which answers an offset between low and high for every partition)
\* returns: seek map, demand estimate, short-circuit, group creation and
\* tracking, then await consumer.connect()
FetchPrecheck(k, ok, tsOffsets) ==
  LET f == fetch[k]
      sm == BuildSeekMap(f.partition, f.fromOffset, f.fromTimestamp,
                         watermarks, tsOffsets)
      total == TotalExpected(sm)
      gid == GroupIdOf(nextUuid)
  IN
  /\ f.pc = "precheck"
  /\ \A p \in Partitions :
       IF Truthy(f.fromTimestamp)
       THEN watermarks[p].low <= tsOffsets[p] /\ tsOffsets[p] <= watermarks[p].high
       ELSE tsOffsets[p] = 0
  /\ IF ~ok
     THEN /\ fetch' = [fetch EXCEPT ![k] =
                 [f EXCEPT !.pc = "done", !.outcome = "rejected",
                           !.error = "precheck", !.settleCalls = 1]]
          /\ UNCHANGED <<tempConsumerGroups, nextUuid>>
     ELSE IF ShortCircuit(total, f.maxLimit)
     THEN /\ fetch' = [fetch EXCEPT ![k] =
                 [f EXCEPT !.pc = "done", !.outcome = "resolved",
                           !.topicOffsets = watermarks,
                           !.timestampOffsets =
                              IF Truthy(f.fromTimestamp) THEN tsOffsets ELSE EmptyMap,
                           !.seekMap = sm, !.settleCalls = 1]]
          /\ UNCHANGED <<tempConsumerGroups, nextUuid>>
     ELSE /\ nextUuid <= Len(UuidOf)
          /\ fetch' = [fetch EXCEPT ![k] =
                 [f EXCEPT !.pc = "connecting",
                           !.topicOffsets = watermarks,
                           !.timestampOffsets =
                              IF Truthy(f.fromTimestamp) THEN tsOffsets ELSE EmptyMap,
                           !.seekMap = sm,
                           !.totalExpected = Min(total, f.maxLimit),
                           !.groupId = gid, !.consumer = "created"]]
          /\ tempConsumerGroups' = TrackTempGroup(tempConsumerGroups, f.conn, gid)
          /\ nextUuid' = nextUuid + 1
  /\ UNCHANGED <<instances, handleState, nextHandle, watermarks,
                 clusterGroups, conn, disc, lastOp, crashed, orphans,
                 reset, committed, ipc, renderer>>

\* await consumer.connect() returns or throws (catch: await cleanup())
FetchConsumerConnect(k, ok) ==
  LET f == fetch[k] IN
  /\ f.pc = "connecting"
  /\ fetch' = [fetch EXCEPT ![k] =
       IF ok THEN [f EXCEPT !.pc = "subscribing", !.consumer = "connected"]
       ELSE CleanupBegin([f EXCEPT !.pc = "catch"], "setup", FALSE)]
  /\ UNCHANGED <<instances, tempConsumerGroups, handleState, nextHandle,
                 nextUuid, watermarks, clusterGroups, conn, disc, lastOp,
                 crashed, orphans, reset, committed, ipc, renderer>>

\* await consumer.subscribe() returns (the promise executor runs: the overall
\* timer is armed and consumer.run() is called) or throws
FetchSubscribe(k, ok) ==
  LET f == fetch[k] IN
  /\ f.pc = "subscribing"
  /\ fetch' = [fetch EXCEPT ![k] =
       IF ok THEN [f EXCEPT !.pc = "promise", !.overallTimer = TRUE,
                            !.run = "pending"]
       ELSE CleanupBegin([f EXCEPT !.pc = "catch"], "setup", FALSE)]
  /\ UNCHANGED <<instances, tempConsumerGroups, handleState, nextHandle,
                 nextUuid, watermarks, clusterGroups, conn, disc, lastOp,
                 crashed, orphans, reset, committed, ipc, renderer>>

\* a seek offset past the end of its partition: the broker answers the
\* fetch at that offset with "offset out of range"
OutOfRange(f, w, p) ==
  p \in DOMAIN f.seekMap /\ f.seekMap[p].seekOffset > w[p].high

\* a .then callback that issues no seek
IssueNoSeeks(f, w, fallback) ==
  [f EXCEPT !.pos = [p \in Partitions |-> w[p].low]]

\* for (const [p, { seekOffset }] of seekMap) consumer.seek(...): the
\* consumer's position on a partition is its seek offset, and the earliest
\* offset (the consumer subscribed with fromBeginning: true) on a partition
\* with no seek, or whose out-of-range seek made the client fall back
IssueSeeks(f, w, fallback) ==
  [f EXCEPT
     !.seeksIssued = DOMAIN f.seekMap,
     !.pos = [p \in Partitions |->
                IF p \in DOMAIN f.seekMap /\ ~(fallback /\ OutOfRange(f, w, p))
                THEN f.seekMap[p].seekOffset
                ELSE w[p].low]]

\* run() resolves (the consumer joined its group); the .then callback seeks
\* every partition of the seek map and starts the idle timer
RunThen(k, fallback) ==
  LET f == fetch[k] IN
  /\ f.pc = "promise"
  /\ f.run = "pending"
  /\ fallback => \E p \in Partitions : OutOfRange(f, watermarks, p)
  /\ fetch' = [fetch EXCEPT ![k] =
       ResetIdleTimer(IssueSeeks([f EXCEPT !.run = "running"],
                                 watermarks, fallback))]
  /\ clusterGroups' = clusterGroups \cup {f.groupId}
  /\ UNCHANGED <<instances, tempConsumerGroups, handleState, nextHandle,
                 nextUuid, watermarks, conn, disc, lastOp, crashed, orphans,
                 reset, committed, ipc, renderer>>

\* run() rejects: the .catch callback
RunCatch(k) ==
  LET f == fetch[k] IN
  /\ f.pc = "promise"
  /\ f.run = "pending"
  /\ fetch' = [fetch EXCEPT ![k] =
       LET g == [f EXCEPT !.run = "rejected"] IN
       IF g.resolved THEN g
       ELSE CleanupBegin([g EXCEPT !.resolved = TRUE, !.idleTimer = FALSE,
                                   !.overallTimer = FALSE], "run", FALSE)]
  /\ UNCHANGED <<instances, tempConsumerGroups, handleState, nextHandle,
                 nextUuid, watermarks, clusterGroups, conn, disc, lastOp,
                 crashed, orphans, reset, committed, ipc, renderer>>

\* the consumer hands the next record of partition p to eachMessage (its
\* position is not followed any further once the call is resolved)
Deliver(k, p) ==
  LET f == fetch[k] IN
  /\ f.pc = "promise"
  /\ f.run = "running"
  /\ f.consumer = "connected"
  /\ f.pos[p] < watermarks[p].high
  /\ fetch' = [fetch EXCEPT ![k] =
       IF f.resolved THEN EachMessage(f, p, f.pos[p])
       ELSE EachMessage([f EXCEPT !.pos[p] = @ + 1], p, f.pos[p])]
  /\ UNCHANGED <<instances, tempConsumerGroups, handleState, nextHandle,
                 nextUuid, watermarks, clusterGroups, conn, disc, lastOp,
                 crashed, orphans, reset, committed, ipc, renderer>>

\* the 2 s idle timer fires
IdleTimeout(k) ==
  LET f == fetch[k] IN
  /\ f.pc = "promise"
  /\ f.idleTimer
  /\ fetch' = [fetch EXCEPT ![k] = Finish([f EXCEPT !.idleTimer = FALSE], FALSE)]
  /\ UNCHANGED <<instances, tempConsumerGroups, handleState, nextHandle,
                 nextUuid, watermarks, clusterGroups, conn, disc, lastOp,
                 crashed, orphans, reset, committed, ipc, renderer>>

\* the 15 s overall timer fires
OverallTimeout(k) ==
  LET f == fetch[k] IN
  /\ f.pc = "promise"
  /\ f.overallTimer
  /\ fetch' = [fetch EXCEPT ![k] = Finish([f EXCEPT !.overallTimer = FALSE], FALSE)]
  /\ UNCHANGED <<instances, tempConsumerGroups, handleState, nextHandle,
                 nextUuid, watermarks, clusterGroups, conn, disc, lastOp,
                 crashed, orphans, reset, committed, ipc, renderer>>

\* what cleanup() does when `await consumer.disconnect()` returns or throws
AfterConsumerDisconnect(f, ok) ==
  IF ok
  THEN [f EXCEPT !.consumer = "disconnected", !.cleanup = "deleting",
                 !.pos = EmptyMap, !.deleteGroupsIssued = @ + 1]
  ELSE IF f.via = "setup"
       THEN [f EXCEPT !.cleanup = "failed", !.pc = "done",
                      !.outcome = "rejected", !.error = "cleanup",
                      !.settleCalls = @ + 1]
       ELSE [f EXCEPT !.cleanup = "failed"]

\* cleanup(): await consumer.disconnect() returns or throws
CleanupDisconnect(k, ok) ==
  LET f == fetch[k] IN
  /\ f.cleanup = "disconnecting"
  /\ fetch' = [fetch EXCEPT ![k] = AfterConsumerDisconnect(f, ok)]
  /\ UNCHANGED <<instances, tempConsumerGroups, handleState, nextHandle,
                 nextUuid, watermarks, clusterGroups, conn, disc, lastOp,
                 crashed, orphans, reset, committed, ipc, renderer>>

\* cleanup(): admin.deleteGroups([groupId]) returns or throws (ignored), the
\* group is untracked and the caller's continuation settles the call
CleanupDeleteGroups(k, ok) ==
  LET f == fetch[k] IN
  /\ f.cleanup = "deleting"
  /\ ok => f.groupId \in clusterGroups
  /\ clusterGroups' = IF ok THEN clusterGroups \ {f.groupId} ELSE clusterGroups
  /\ tempConsumerGroups' = UntrackTempGroup(tempConsumerGroups, f.conn, f.groupId)
  /\ fetch' = [fetch EXCEPT ![k] =
       Settle([f EXCEPT !.cleanup = "done",
                        !.pc = IF f.via = "setup" THEN "done" ELSE @])]
  /\ UNCHANGED <<instances, handleState, nextHandle, nextUuid, watermarks,
                 conn, disc, lastOp, crashed, orphans, reset, committed,
                 ipc, renderer>>

\* ------------------------------------------------------------------------
\* error messages and mapTlsError
\* ------------------------------------------------------------------------
\* a message is a sequence of words; the codes of the TLS library are words
TlsErrors ==
  << [code |-> "DEPTH_ZERO_SELF_SIGNED_CERT",
      friendly |->
        "The server is using a self-signed certificate. Enable \"Skip certificate verification\" to connect."],
     [code |-> "SELF_SIGNED_CERT_IN_CHAIN",
      friendly |->
        "The certificate chain contains a self-signed certificate. Provide the CA certificate or enable \"Skip certificate verification\"."],
     [code |-> "UNABLE_TO_VERIFY_LEAF_SIGNATURE",
      friendly |->
        "Unable to verify the server certificate. Provide the correct CA certificate or enable \"Skip certificate verification\"."],
     [code |-> "CERT_HAS_EXPIRED",
      friendly |->
        "The server certificate has expired. Contact the cluster administrator."],
     [code |-> "ERR_TLS_CERT_ALTNAME_INVALID",
      friendly |->
        "The server hostname does not match the certificate. Check the broker address or provide the correct certificate."],
     [code |-> "UNABLE_TO_GET_ISSUER_CERT",
      friendly |->
        "Unable to find the certificate issuer. Provide the CA certificate."],
     [code |-> "UNABLE_TO_GET_ISSUER_CERT_LOCALLY",
      friendly |->
        "Unable to find the certificate issuer locally. Provide the CA certificate."],
     [code |-> "ERR_OSSL_EVP_BAD_DECRYPT",
      friendly |->
        "Could not decrypt the private key. Check the passphrase."],
     [code |-> "ERR_OSSL_PEM_BAD_BASE64_DECODE",
      friendly |->
        "The certificate or key file is malformed. Ensure it is a valid PEM file."] >>

\* message.includes(code): the code is a word of the message, or the
\* beginning of one (UNABLE_TO_GET_ISSUER_CERT begins ..._LOCALLY)
Includes(message, code) ==
  \E i \in DOMAIN message :
    \/ message[i] = code
    \/ code = "UNABLE_TO_GET_ISSUER_CERT"
         /\ message[i] = "UNABLE_TO_GET_ISSUER_CERT_LOCALLY"

\* mapTlsError: the friendly message of the first code of the table that
\* the message includes, or the message itself
MapTlsError(message) ==
  LET hits == {i \in DOMAIN TlsErrors : Includes(message, TlsErrors[i].code)} IN
  IF hits = {} THEN message
  ELSE <<TlsErrors[CHOOSE i \in hits : \A j \in hits : i <= j].friendly>>

\* what the library throws when a handshake fails
SelfSigned == <<"unable to connect:", "DEPTH_ZERO_SELF_SIGNED_CERT">>
NoIssuerLocally == <<"unable to connect:", "UNABLE_TO_GET_ISSUER_CERT_LOCALLY">>
Refused == <<"connect ECONNREFUSED">>
Causes == {SelfSigned, Refused}
NoMessage == <<>>

\* ------------------------------------------------------------------------
\* the kafka:connect handler: KafkaService.connect, then the orphan reaper
\* ------------------------------------------------------------------------
MaxRetries == 3

FreeConn ==
  [pc |-> "free", conn |-> "none", profile |-> "none",
   admin |-> 0, producer |-> 0, noop |-> FALSE, attempt |-> 0,
   outcome |-> "none", error |-> "none",
   cause |-> NoMessage, message |-> NoMessage,
   listed |-> {}, orphaned |-> {}, reaper |-> "none"]

\* groups.filter((g) => g.groupId.startsWith('kafka-explorer-consumer-'))
OrphanedOf(groups) == {g \in groups : StartsWith(g, ReaperPrefix)}

\* connect without its `if (this.instances.has(connection.id)) return`
ConnectNeverReturnsAtOnce(id) == FALSE

\* if (this.instances.has(connection.id)) return
ConnectReturnsAtOnce(id) == HasInstance(id)

\* KafkaService.connect up to its first await: an existing session makes it
\* return at once, otherwise a fresh admin / producer pair is created
ConnectEntry(r, id, profile) ==
  IF ConnectReturnsAtOnce(id)
  THEN [r EXCEPT !.pc = "listGroups", !.conn = id, !.profile = profile,
                 !.noop = TRUE, !.attempt = 1, !.outcome = "pending"]
  ELSE [r EXCEPT !.pc = "adminConnect", !.conn = id, !.profile = profile,
                 !.admin = nextHandle, !.producer = nextHandle + 1,
                 !.outcome = "pending"]

\* ipcMain.handle('kafka:connect'): connectionStore.get, kafkaService.connect
ConnectStart(c, id, found, profile) ==
  /\ conn[c].pc = "free"
  /\ \A j \in ConnectIds : j < c => conn[j].pc # "free"
  /\ IF ~found
     THEN /\ conn' = [conn EXCEPT ![c] =
                 [FreeConn EXCEPT !.pc = "done", !.conn = id,
                                  !.outcome = "error",
                                  !.error = "Connection not found"]]
          /\ UNCHANGED <<handleState, nextHandle>>
     ELSE /\ conn' = [conn EXCEPT ![c] = ConnectEntry(FreeConn, id, profile)]
          /\ IF ConnectReturnsAtOnce(id)
             THEN UNCHANGED <<handleState, nextHandle>>
             ELSE /\ nextHandle + 1 \in HandleIds
                  /\ handleState' = [handleState EXCEPT
                        ![nextHandle] = "created",
                        ![nextHandle + 1] = "created"]
                  /\ nextHandle' = nextHandle + 2
  /\ UNCHANGED <<instances, tempConsumerGroups, nextUuid, watermarks,
                 clusterGroups, fetch, disc, lastOp, crashed, orphans,
                 reset, committed, ipc, renderer>>

\* the message of the error that leaves connect when admin.connect() or
\* producer.connect() throws: the awaits are in no try block, the error of
\* the library goes to the caller as it is
ConnectError(cause) == cause

\* await admin.connect() returns or throws
ConnectAdmin(c, ok, cause) ==
  LET r == conn[c] IN
  /\ r.pc = "adminConnect"
  /\ conn' = [conn EXCEPT ![c] =
       IF ok THEN [r EXCEPT !.pc = "producerConnect"]
       ELSE [r EXCEPT !.pc = "done", !.outcome = "error",
                      !.error = "admin.connect", !.cause = cause,
                      !.message = ConnectError(cause)]]
  /\ handleState' = IF ok THEN [handleState EXCEPT ![r.admin] = "connected"]
                    ELSE handleState
  /\ UNCHANGED <<instances, tempConsumerGroups, nextHandle, nextUuid,
                 watermarks, clusterGroups, fetch, disc, lastOp, crashed,
                 orphans, reset, committed, ipc, renderer>>

\* await producer.connect() returns (the session is registered and the
\* handler goes on to list the groups) or throws
ConnectProducer(c, ok, cause) ==
  LET r == conn[c] IN
  /\ r.pc = "producerConnect"
  /\ conn' = [conn EXCEPT ![c] =
       IF ok THEN [r EXCEPT !.pc = "listGroups", !.attempt = 1]
       ELSE [r EXCEPT !.pc = "done", !.outcome = "error",
                      !.error = "producer.connect", !.cause = cause,
                      !.message = ConnectError(cause)]]
  /\ handleState' = IF ok THEN [handleState EXCEPT ![r.producer] = "connected"]
                    ELSE handleState
  /\ instances' = IF ok
                  THEN [instances EXCEPT ![r.conn] =
                          [present |-> TRUE, kafka |-> r.profile,
                           admin |-> r.admin, producer |-> r.producer,
                           consumers |-> {}]]
                  ELSE instances
  /\ UNCHANGED <<tempConsumerGroups, nextHandle, nextUuid, watermarks,
                 clusterGroups, fetch, disc, lastOp, crashed, orphans,
                 reset, committed, ipc, renderer>>

\* a handler whose reaper failures reach the caller
ReaperDoneRethrow(r, reaper) ==
  [r EXCEPT !.pc = "done", !.attempt = 0, !.reaper = reaper,
            !.outcome = IF reaper \in {"listFailed", "deleteFailed", "notConnected"}
                        THEN "error" ELSE "ok"]

\* the end of the handler: whatever the try block of the reaper did or
\* threw (catch {}), the handler returns normally
ReaperDone(r, reaper) ==
  [r EXCEPT !.pc = "done", !.attempt = 0, !.reaper = reaper, !.outcome = "ok"]

\* deleteOrphanedGroups up to its first await
DeleteOrphanedGroupsEntry(id, groupIds) ==
  IF groupIds = {} THEN "returned"
  ELSE GetInstance(id)

\* getConsumerGroups: admin.listGroups() returns (retried while empty) or
\* throws; the handler filters the orphaned groups and asks for their deletion
ReaperList(c, ok, listing) ==
  LET r == conn[c]
      orphaned == OrphanedOf(listing)
  IN
  /\ r.pc = "listGroups"
  /\ conn' = [conn EXCEPT ![c] =
       IF ~ok
       THEN ReaperDone(r, "listFailed")
       ELSE IF listing = {} /\ r.attempt < MaxRetries
       THEN [r EXCEPT !.attempt = @ + 1]
       ELSE IF orphaned = {}
       THEN ReaperDone([r EXCEPT !.listed = listing], "nothing")
       ELSE IF DeleteOrphanedGroupsEntry(r.conn, orphaned) = "issued"
       THEN [r EXCEPT !.pc = "deleteOrphans", !.listed = listing,
                      !.orphaned = orphaned]
       ELSE ReaperDone([r EXCEPT !.listed = listing, !.orphaned = orphaned],
                       "notConnected")]
  /\ UNCHANGED <<instances, tempConsumerGroups, handleState, nextHandle,
                 nextUuid, watermarks, clusterGroups, fetch, disc, lastOp,
                 crashed, orphans, reset, committed, ipc, renderer>>

\* deleteOrphanedGroups: admin.deleteGroups(groupIds) returns or throws
ReaperDelete(c, ok) ==
  LET r == conn[c] IN
  /\ r.pc = "deleteOrphans"
  /\ conn' = [conn EXCEPT ![c] =
       ReaperDone(r, IF ok THEN "deleted" ELSE "deleteFailed")]
  /\ clusterGroups' = IF ok THEN clusterGroups \ r.orphaned ELSE clusterGroups
  /\ UNCHANGED <<instances, tempConsumerGroups, handleState, nextHandle,
                 nextUuid, watermarks, fetch, disc, lastOp, crashed, orphans,
                 reset, committed, ipc, renderer>>

\* ------------------------------------------------------------------------
\* disconnect
\* ------------------------------------------------------------------------
FreeDisc ==
  [pc |-> "free", conn |-> "none", noop |-> FALSE,
   admin |-> 0, producer |-> 0, consumers |-> {},
   groups |-> {}, errors |-> 0, failed |-> {}, trace |-> <<>>,
   inflight |-> {}, raced |-> {}]

\* the getMessages calls on a connection whose temporary consumer is
\* connected and whose promise has not settled
InFlight(id) ==
  {k \in FetchIds : /\ fetch[k].conn = id
                    /\ fetch[k].consumer = "connected"
                    /\ fetch[k].outcome = "pending"}

\* a teardown that closes the admin handle and removes the session first
NextTeardownStepAdminFirst(step, hasGroups) ==
  CASE step = "start" -> "admin"
    [] step = "admin" -> IF hasGroups THEN "cleanupGroups" ELSE "producer"
    [] step = "cleanupGroups" -> "producer"
    [] OTHER -> "done"

\* the order of the teardown steps of disconnect: cleanupTempGroups (which
\* returns at once with nothing tracked or no session), producer.disconnect,
\* admin.disconnect and, with it, instances.delete
NextTeardownStep(step, hasGroups) ==
  CASE step = "start" -> IF hasGroups THEN "cleanupGroups" ELSE "producer"
    [] step = "cleanupGroups" -> "producer"
    [] step = "producer" -> "admin"
    [] OTHER -> "done"

\* a teardown step whose failure is not caught
CollectRethrow(r, step, ok) ==
  IF ok THEN r ELSE [r EXCEPT !.pc = "threw"]

\* try { await ... } catch (error) { errors.push(...) }
Collect(r, step, ok) ==
  IF ok THEN r
  ELSE [r EXCEPT !.errors = @ + 1, !.failed = @ \cup {step}]

\* the call of the next teardown step, unless an error escaped
Proceed(r, step) ==
  LET id == r.conn
      nxt == NextTeardownStep(step, Tracked(id) # {} /\ HasInstance(id))
  IN IF r.pc = "threw" THEN r
     ELSE IF nxt = "done" THEN [r EXCEPT !.pc = "done"]
     ELSE [r EXCEPT !.pc = nxt, !.trace = Append(@, nxt),
                    !.groups = IF nxt = "cleanupGroups" THEN Tracked(id) ELSE @]

\* disconnect up to its first await: an absent session makes it return; the
\* loop over instance.consumers closes every registered consumer (none is
\* ever registered) and the next teardown step is called
DisconnectEntry(r, id) ==
  IF ~HasInstance(id)
  THEN [r EXCEPT !.pc = "done", !.conn = id, !.noop = TRUE]
  ELSE Proceed([r EXCEPT !.conn = id,
                         !.admin = instances[id].admin,
                         !.producer = instances[id].producer,
                         !.consumers = instances[id].consumers,
                         !.inflight = InFlight(id),
                         !.trace = <<"consumers">>], "start")

DisconnectStart(d, id) ==
  /\ disc[d].pc = "free"
  /\ \A j \in DiscIds : j < d => disc[j].pc # "free"
  /\ disc' = [disc EXCEPT ![d] = DisconnectEntry(FreeDisc, id)]
  /\ instances' = IF HasInstance(id)
                  THEN [instances EXCEPT ![id].consumers = {}]
                  ELSE instances
  /\ UNCHANGED <<tempConsumerGroups, handleState, nextHandle, nextUuid,
                 watermarks, clusterGroups, fetch, conn, lastOp, crashed,
                 orphans, reset, committed, ipc, renderer>>

\* cleanupTempGroups: admin.deleteGroups([...groups]) returns or throws
\* (ignored), groups.clear(); then the next teardown step is called
DisconnectDeleteGroups(d, ok) ==
  LET r == disc[d] IN
  /\ r.pc = "cleanupGroups"
  /\ ok => r.groups \subseteq clusterGroups
  /\ clusterGroups' = IF ok THEN clusterGroups \ r.groups ELSE clusterGroups
  /\ tempConsumerGroups' =
       IF tempConsumerGroups[r.conn].present
       THEN [tempConsumerGroups EXCEPT ![r.conn].groups = {}]
       ELSE tempConsumerGroups
  /\ disc' = [disc EXCEPT ![d] =
       Proceed([r EXCEPT !.failed = IF ok THEN @ ELSE @ \cup {"cleanupGroups"}],
               "cleanupGroups")]
  /\ UNCHANGED <<instances, handleState, nextHandle, nextUuid, watermarks,
                 fetch, conn, lastOp, crashed, orphans, reset, committed,
                 ipc, renderer>>

\* producer.disconnect() returns or throws (collected); then the next
\* teardown step is called
DisconnectProducer(d, ok) ==
  LET r == disc[d] IN
  /\ r.pc = "producer"
  /\ handleState' = IF ok THEN [handleState EXCEPT ![r.producer] = "closed"]
                    ELSE handleState
  /\ disc' = [disc EXCEPT ![d] = Proceed(Collect(r, "producer", ok), "producer")]
  /\ UNCHANGED <<instances, tempConsumerGroups, nextHandle, nextUuid,
                 watermarks, clusterGroups, fetch, conn, lastOp, crashed,
                 orphans, reset, committed, ipc, renderer>>

\* admin.disconnect() returns or throws (collected); instances.delete(id);
\* then the next teardown step, if any, is called
DisconnectAdmin(d, ok) ==
  LET r == disc[d]
      s == Collect(r, "admin", ok)
  IN
  /\ r.pc = "admin"
  /\ handleState' = IF ok THEN [handleState EXCEPT ![r.admin] = "closed"]
                    ELSE handleState
  /\ instances' = IF s.pc = "threw" THEN instances
                  ELSE [instances EXCEPT ![r.conn] = NoInstance]
  /\ disc' = [disc EXCEPT ![d] =
       IF s.pc = "threw" THEN s
       ELSE Proceed([s EXCEPT !.trace = Append(@, "removed"),
                              !.raced = @ \cup (r.inflight \cap InFlight(r.conn))],
                    "admin")]
  /\ UNCHANGED <<tempConsumerGroups, nextHandle, nextUuid, watermarks,
                 clusterGroups, fetch, conn, lastOp, crashed, orphans,
                 reset, committed, ipc, renderer>>

NoOp == [op |-> "none", conn |-> "none", had |-> FALSE, empty |-> FALSE,
         outcome |-> "none"]

\* the record of a call: the operation, its connection id, whether a
\* session was registered when it was called, whether its list argument was
\* empty, and how it went
OpRecord(op, id, empty, outcome) ==
  [op |-> op, conn |-> id, had |-> HasInstance(id), empty |-> empty,
   outcome |-> outcome]

\* ------------------------------------------------------------------------
\* resetOffsets
\* ------------------------------------------------------------------------
ResetIds == {1}
\* the consumer groups whose committed offsets are followed
OffsetGroups == {"analytics", "audit"}
\* the modelled topic and a second, empty topic with the same partitions
TopicName == "t"
OtherTopic == "other"
Topics == {TopicName, OtherTopic}
ResetTypes == {"earliest", "latest", "timestamp", "offset"}

\* the empty string as an offset option
EmptyString == 0 - 2
\* an explicit offset beyond every high watermark
BeyondHigh == MaxHigh + 1

\* `!options.offset` on a string: undefined and '' are falsy
TruthyString(x) == x # Undefined /\ x # EmptyString

\* what admin.fetchTopicOffsets(topic) answers
TopicOffsets(topic) ==
  IF topic = TopicName THEN watermarks
  ELSE [p \in Partitions |-> [low |-> 0, high |-> 0]]

FreeReset ==
  [pc |-> "free", conn |-> "none", groupId |-> "none", topic |-> "none",
   type |-> "none", timestamp |-> Undefined, offset |-> Undefined,
   given |-> FALSE, optPartitions |-> {},
   topicOffsets |-> EmptyMap, byTimestamp |-> EmptyMap,
   partitions |-> {}, newOffsets |-> EmptyMap,
   outcome |-> "none", error |-> "none", setOffsetsCalls |-> 0,
   before |-> EmptyMap]

\* options.partitions || topicOffsets.map((p) => p.partition) : an array,
\* also an empty one, is truthy
SelectedPartitions(given, optPartitions, topicOffsets) ==
  IF given THEN optPartitions ELSE DOMAIN topicOffsets

\* a switch that never throws
ValidationErrorNone(type, timestamp, offset) == "none"

\* the throws of the switch: a falsy timestamp (undefined or 0), a falsy
\* offset (undefined or ''), an unknown type
ValidationError(type, timestamp, offset) ==
  CASE type = "earliest" -> "none"
    [] type = "latest" -> "none"
    [] type = "timestamp" ->
         IF ~Truthy(timestamp) THEN "Timestamp required" ELSE "none"
    [] type = "offset" ->
         IF ~TruthyString(offset) THEN "Offset required" ELSE "none"
    [] OTHER -> "Invalid reset type"

\* a switch whose `latest` case takes the low watermark
NewOffsetsLatestAsLow(type, partitions, offsetMap, byTimestamp, offset) ==
  [p \in partitions |->
     CASE type \in {"earliest", "latest"} ->
            IF p \in DOMAIN offsetMap THEN offsetMap[p].low ELSE 0
       [] type = "timestamp" ->
            IF p \in DOMAIN byTimestamp THEN byTimestamp[p] ELSE 0
       [] OTHER -> offset]

\* the newOffsets of the switch, as partition -> offset
NewOffsets(type, partitions, offsetMap, byTimestamp, offset) ==
  [p \in partitions |->
     CASE type = "earliest" ->
            IF p \in DOMAIN offsetMap THEN offsetMap[p].low ELSE 0
       [] type = "latest" ->
            IF p \in DOMAIN offsetMap THEN offsetMap[p].high ELSE 0
       [] type = "timestamp" ->
            IF p \in DOMAIN byTimestamp THEN byTimestamp[p] ELSE 0
       [] OTHER -> offset]

\* a commit that rewinds the partitions the request does not name
SetOffsetsEveryPartition(c, groupId, topic, newOffsets) ==
  [c EXCEPT ![groupId][topic] =
     [p \in DOMAIN @ |-> IF p \in DOMAIN newOffsets THEN newOffsets[p] ELSE 0]]

\* what admin.setOffsets({ groupId, topic, partitions }) commits
SetOffsets(c, groupId, topic, newOffsets) ==
  [c EXCEPT ![groupId][topic] =
     [p \in DOMAIN @ |-> IF p \in DOMAIN newOffsets THEN newOffsets[p] ELSE @[p]]]

\* resetOffsets is called: getInstance, then await admin.fetchTopicOffsets
ResetStart(r, id, groupId, topic, type, timestamp, offset, given, optPartitions) ==
  /\ reset[r].pc = "free"
  /\ \A j \in ResetIds : j < r => reset[j].pc # "free"
  /\ reset' = [reset EXCEPT ![r] =
       LET s == [FreeReset EXCEPT !.conn = id, !.groupId = groupId,
                   !.topic = topic, !.type = type, !.timestamp = timestamp,
                   !.offset = offset, !.given = given,
                   !.optPartitions = optPartitions, !.before = committed]
       IN IF GetInstance(id) = "issued"
          THEN [s EXCEPT !.pc = "fetchTopicOffsets", !.outcome = "pending"]
          ELSE [s EXCEPT !.pc = "done", !.outcome = "rejected",
                         !.error = "NotConnected"]]
  /\ lastOp' = OpRecord("resetOffsets", id, FALSE, GetInstance(id))
  /\ UNCHANGED <<instances, tempConsumerGroups, handleState, nextHandle,
                 nextUuid, watermarks, clusterGroups, fetch, conn, disc,
                 crashed, orphans, committed, ipc, renderer>>

\* the watermark read returns or throws; then the switch: a throw, the
\* timestamp lookup, or the offsets and await admin.setOffsets
ResetTopicOffsets(r, ok) ==
  LET s == reset[r]
      topicOffsets == TopicOffsets(s.topic)
      partitions == SelectedPartitions(s.given, s.optPartitions, topicOffsets)
      verr == ValidationError(s.type, s.timestamp, s.offset)
  IN
  /\ s.pc = "fetchTopicOffsets"
  /\ reset' = [reset EXCEPT ![r] =
       IF ~ok
       THEN [s EXCEPT !.pc = "done", !.outcome = "rejected",
                      !.error = "fetchTopicOffsets"]
       ELSE LET t == [s EXCEPT !.topicOffsets = topicOffsets,
                               !.partitions = partitions]
            IN IF verr # "none"
               THEN [t EXCEPT !.pc = "done", !.outcome = "rejected",
                              !.error = verr]
               ELSE IF s.type = "timestamp"
               THEN [t EXCEPT !.pc = "byTimestamp"]
               ELSE [t EXCEPT !.pc = "setOffsets",
                              !.newOffsets = NewOffsets(s.type, partitions,
                                               topicOffsets, EmptyMap, s.offset),
                              !.setOffsetsCalls = @ + 1]]
  /\ UNCHANGED <<instances, tempConsumerGroups, handleState, nextHandle,
                 nextUuid, watermarks, clusterGroups, fetch, conn, disc,
                 lastOp, crashed, orphans, committed, ipc, renderer>>

\* admin.fetchTopicOffsetsByTimestamp returns (offsets within the
\* watermarks, for some of the partitions) or throws; then the offsets and
\* await admin.setOffsets
ResetByTimestamp(r, ok, byTimestamp) ==
  LET s == reset[r] IN
  /\ s.pc = "byTimestamp"
  /\ \A p \in DOMAIN byTimestamp :
       /\ TopicOffsets(s.topic)[p].low <= byTimestamp[p]
       /\ byTimestamp[p] <= TopicOffsets(s.topic)[p].high
  /\ ~ok => byTimestamp = EmptyMap
  /\ reset' = [reset EXCEPT ![r] =
       IF ~ok
       THEN [s EXCEPT !.pc = "done", !.outcome = "rejected",
                      !.error = "fetchTopicOffsetsByTimestamp"]
       ELSE [s EXCEPT !.pc = "setOffsets", !.byTimestamp = byTimestamp,
                      !.newOffsets = NewOffsets(s.type, s.partitions,
                                       s.topicOffsets, byTimestamp, s.offset),
                      !.setOffsetsCalls = @ + 1]]
  /\ UNCHANGED <<instances, tempConsumerGroups, handleState, nextHandle,
                 nextUuid, watermarks, clusterGroups, fetch, conn, disc,
                 lastOp, crashed, orphans, committed, ipc, renderer>>

\* admin.setOffsets returns (the offsets are committed) or throws
ResetSetOffsets(r, ok) ==
  LET s == reset[r] IN
  /\ s.pc = "setOffsets"
  /\ reset' = [reset EXCEPT ![r] =
       IF ok THEN [s EXCEPT !.pc = "done", !.outcome = "resolved"]
       ELSE [s EXCEPT !.pc = "done", !.outcome = "rejected",
                      !.error = "setOffsets"]]
  /\ committed' = IF ok
                  THEN SetOffsets(committed, s.groupId, s.topic, s.newOffsets)
                  ELSE committed
  /\ UNCHANGED <<instances, tempConsumerGroups, handleState, nextHandle,
                 nextUuid, watermarks, clusterGroups, fetch, conn, disc,
                 lastOp, crashed, orphans, ipc, renderer>>

\* ------------------------------------------------------------------------
\* the thin service operations
\* ------------------------------------------------------------------------
ReadOps == {"getClusterInfo", "getTopics", "getTopicMetadata",
            "getTopicConfig", "getBrokerConfig", "getConsumerGroups",
            "getConsumerGroupDetails"}
TopicOps == {"createTopic", "deleteTopic"}

\* an operation that reads from the cluster or creates / deletes a topic
\* other than the modelled one: getInstance, then the admin calls
AdminOp(op, id) ==
  /\ lastOp' = OpRecord(op, id, FALSE, GetInstance(id))
  /\ UNCHANGED <<instances, tempConsumerGroups, handleState, nextHandle,
                 nextUuid, watermarks, clusterGroups, fetch, conn, disc,
                 crashed, orphans, reset, committed, ipc, renderer>>

\* produceMessage: getInstance, then producer.send appends one record
ProduceMessage(id, p) ==
  /\ HasInstance(id) => watermarks[p].high < MaxHigh
  /\ lastOp' = OpRecord("produceMessage", id, FALSE, GetInstance(id))
  /\ watermarks' = IF HasInstance(id)
                   THEN [watermarks EXCEPT ![p].high = @ + 1]
                   ELSE watermarks
  /\ UNCHANGED <<instances, tempConsumerGroups, handleState, nextHandle,
                 nextUuid, clusterGroups, fetch, conn, disc, crashed, orphans,
                 reset, committed, ipc, renderer>>

\* deleteRecords: getInstance, then admin.deleteTopicRecords moves the low
\* watermark of the partition up to the offset
DeleteRecords(id, p, offset) ==
  /\ offset <= watermarks[p].high
  /\ lastOp' = OpRecord("deleteRecords", id, FALSE, GetInstance(id))
  /\ watermarks' = IF HasInstance(id) /\ offset > watermarks[p].low
                   THEN [watermarks EXCEPT ![p].low = offset]
                   ELSE watermarks
  /\ UNCHANGED <<instances, tempConsumerGroups, handleState, nextHandle,
                 nextUuid, clusterGroups, fetch, conn, disc, crashed, orphans,
                 reset, committed, ipc, renderer>>

\* deleteConsumerGroup: getInstance, then admin.deleteGroups([groupId])
DeleteConsumerGroup(id, g) ==
  /\ lastOp' = OpRecord("deleteConsumerGroup", id, FALSE, GetInstance(id))
  /\ clusterGroups' = IF HasInstance(id) THEN clusterGroups \ {g}
                      ELSE clusterGroups
  /\ UNCHANGED <<instances, tempConsumerGroups, handleState, nextHandle,
                 nextUuid, watermarks, fetch, conn, disc, crashed, orphans,
                 reset, committed, ipc, renderer>>

\* deleteOrphanedGroups called on its own
DeleteOrphanedGroups(id, groupIds) ==
  /\ lastOp' = OpRecord("deleteOrphanedGroups", id, groupIds = {},
                         DeleteOrphanedGroupsEntry(id, groupIds))
  /\ clusterGroups' = IF DeleteOrphanedGroupsEntry(id, groupIds) = "issued"
                      THEN clusterGroups \ groupIds ELSE clusterGroups
  /\ UNCHANGED <<instances, tempConsumerGroups, handleState, nextHandle,
                 nextUuid, watermarks, fetch, conn, disc, crashed, orphans,
                 reset, committed, ipc, renderer>>

\* ------------------------------------------------------------------------
\* the IPC boundary: the ipcMain handlers of the two handler sets
\* ------------------------------------------------------------------------
\* the handlers that return the service promise (part_000) and the handlers
\* built on ipcSuccess / ipcError (preload.ts)
HandlerSets == {"promise", "ipcResult"}

ConnectionChannels ==
  {"connections:getAll", "connections:get", "connections:save",
   "connections:delete"}

KafkaChannels ==
  {"kafka:disconnect", "kafka:getTopics", "kafka:getTopicMetadata",
   "kafka:getTopicConfig", "kafka:createTopic", "kafka:deleteTopic",
   "kafka:getMessages", "kafka:produceMessage", "kafka:getConsumerGroups",
   "kafka:getConsumerGroupDetails", "kafka:deleteConsumerGroup",
   "kafka:resetOffsets", "kafka:deleteRecords"}

\* handlers that only the ipcSuccess / ipcError set has
AddedChannels == {"kafka:getClusterInfo", "kafka:getBrokerConfig"}

Channels(set) ==
  ConnectionChannels \cup KafkaChannels
    \cup (IF set = "ipcResult" THEN AddedChannels ELSE {})

\* the part_000 handlers with a try / catch of their own
CaughtChannels == {"kafka:getMessages", "kafka:getConsumerGroupDetails"}

\* what a service or store call does: it returns, throws an Error, or
\* throws a value that is no Error
Returns == [threw |-> FALSE, isError |-> FALSE, message |-> NoMessage]
ThrowsError(message) == [threw |-> TRUE, isError |-> TRUE, message |-> message]
ThrowsValue(text) == [threw |-> TRUE, isError |-> FALSE, message |-> text]

ServiceResults ==
  {Returns, ThrowsError(<<"Not connected to this cluster">>),
   ThrowsError(SelfSigned), ThrowsError(NoIssuerLocally),
   ThrowsValue(<<"timeout">>)}

NoIpc == [set |-> "none", channel |-> "none", kind |-> "none",
          success |-> FALSE, error |-> NoMessage]

\* ipcSuccess(data), or a handler returning the value of the service call
IpcSuccess(set, channel) ==
  [set |-> set, channel |-> channel, kind |-> "returned", success |-> TRUE,
   error |-> NoMessage]

\* a failure returned as a value, with its message
IpcFailure(set, channel, message) ==
  [set |-> set, channel |-> channel, kind |-> "returned", success |-> FALSE,
   error |-> message]

\* ipcError(error): error instanceof Error ? error.message : String(error)
IpcError(set, channel, svc) == IpcFailure(set, channel, svc.message)

\* catch (error) of a part_000 handler:
\* error instanceof Error ? error.message : 'Failed to ...'
IpcCaught(set, channel, svc) ==
  IpcFailure(set, channel,
             IF svc.isError THEN svc.message ELSE <<"Failed to", channel>>)

\* the rejection of the service promise leaves the handler
Propagates(set, channel, svc) ==
  [set |-> set, channel |-> channel, kind |-> "threw", success |-> FALSE,
   error |-> svc.message]

\* the outcome of a handler for an outcome of its service call
HandlerResult(set, channel, svc) ==
  IF ~svc.threw THEN IpcSuccess(set, channel)
  ELSE IF set = "ipcResult" THEN IpcError(set, channel, svc)
  ELSE IF channel \in CaughtChannels THEN IpcCaught(set, channel, svc)
  ELSE Propagates(set, channel, svc)

\* the kafka:connect handlers: the profile lookup, then kafkaService.connect
\* (the reaper of the part_000 handler swallows its own failures)
ConnectHandlerResult(set, found, svc) ==
  IF ~found
  THEN IF set = "ipcResult"
       THEN IpcFailure(set, "kafka:connect", <<"Connection not found">>)
       ELSE Propagates(set, "kafka:connect",
                       ThrowsError(<<"Connection not found">>))
  ELSE HandlerResult(set, "kafka:connect", svc)

\* testConnection: admin.connect, listTopics, disconnect; a failure is
\* returned as { success: false, error: mapTlsError(error) | 'Unknown error' }
TestConnectionResult(set, svc) ==
  IF ~svc.threw THEN IpcSuccess(set, "connections:test")
  ELSE IpcFailure(set, "connections:test",
                  IF svc.isError THEN MapTlsError(svc.message)
                  ELSE <<"Unknown error">>)

\* a renderer call arrives on a channel and its handler ends
IpcCall(set, channel, svc) ==
  /\ ipc' = HandlerResult(set, channel, svc)
  /\ UNCHANGED <<instances, tempConsumerGroups, handleState, nextHandle,
                 nextUuid, watermarks, clusterGroups, fetch, conn, disc,
                 lastOp, crashed, orphans, reset, committed, renderer>>

\* kafka:connect
IpcConnect(set, found, svc) ==
  /\ ipc' = ConnectHandlerResult(set, found, svc)
  /\ UNCHANGED <<instances, tempConsumerGroups, handleState, nextHandle,
                 nextUuid, watermarks, clusterGroups, fetch, conn, disc,
                 lastOp, crashed, orphans, reset, committed, renderer>>

\* connections:test
IpcTestConnection(set, svc) ==
  /\ ipc' = TestConnectionResult(set, svc)
  /\ UNCHANGED <<instances, tempConsumerGroups, handleState, nextHandle,
                 nextUuid, watermarks, clusterGroups, fetch, conn, disc,
                 lastOp, crashed, orphans, reset, committed, renderer>>

\* ------------------------------------------------------------------------
\* the renderer's topic store
\* ------------------------------------------------------------------------
LoadIds == {1, 2}
StoreTopics == {"A", "B"}
\* selectedTopic: null, topicMetadata: null, messages: []
Null == "null"

FreeLoad == [pc |-> "free", kind |-> "none", topic |-> Null]

\* the store after create(); the metadata and the messages held are named
\* by the topic they were loaded for (Null: topicMetadata null, messages [])
FreshStore ==
  [selectedTopic |-> Null, topicMetadata |-> Null, messages |-> Null,
   isLoadingMetadata |-> FALSE, isLoadingMessages |-> FALSE, error |-> FALSE]

FreshRenderer == [store |-> FreshStore, loads |-> [l \in LoadIds |-> FreeLoad]]

\* set(partial) of the store
SetStore(store) ==
  /\ renderer' = [renderer EXCEPT !.store = store]
  /\ UNCHANGED <<instances, tempConsumerGroups, handleState, nextHandle,
                 nextUuid, watermarks, clusterGroups, fetch, conn, disc,
                 lastOp, crashed, orphans, reset, committed, ipc>>

\* selectTopic(topic)
SelectTopic(topic) ==
  SetStore([renderer.store EXCEPT !.selectedTopic = topic,
                                  !.topicMetadata = Null,
                                  !.messages = Null])

\* clearMessages()
ClearMessages ==
  /\ renderer.store.messages # Null
  /\ SetStore([renderer.store EXCEPT !.messages = Null])

\* a load is called and reaches its await
LoadStart(l, kind, topic, store) ==
  /\ renderer.loads[l].pc = "free"
  /\ renderer' = [store |-> store,
                  loads |-> [renderer.loads EXCEPT ![l] =
                               [pc |-> "awaiting", kind |-> kind,
                                topic |-> topic]]]
  /\ UNCHANGED <<instances, tempConsumerGroups, handleState, nextHandle,
                 nextUuid, watermarks, clusterGroups, fetch, conn, disc,
                 lastOp, crashed, orphans, reset, committed, ipc>>

\* the await of a load returns or throws
LoadReturn(l, kind, store) ==
  /\ renderer.loads[l].pc = "awaiting"
  /\ renderer.loads[l].kind = kind
  /\ renderer' = [store |-> store,
                  loads |-> [renderer.loads EXCEPT ![l] = FreeLoad]]
  /\ UNCHANGED <<instances, tempConsumerGroups, handleState, nextHandle,
                 nextUuid, watermarks, clusterGroups, fetch, conn, disc,
                 lastOp, crashed, orphans, reset, committed, ipc>>

\* loadTopicMetadata(connectionId, topic), up to its await
LoadTopicMetadataStart(l, topic) ==
  LoadStart(l, "metadata", topic,
            [renderer.store EXCEPT !.isLoadingMetadata = TRUE,
                                   !.error = FALSE])

\* loadTopicMetadata: getTopicMetadata returns or throws
LoadTopicMetadataReturn(l, ok) ==
  LoadReturn(l, "metadata",
             IF ok
             THEN [renderer.store EXCEPT
                     !.topicMetadata = renderer.loads[l].topic,
                     !.isLoadingMetadata = FALSE]
             ELSE [renderer.store EXCEPT !.error = TRUE,
                                         !.isLoadingMetadata = FALSE])

\* loadMessages(connectionId, topic, options), up to its await
LoadMessagesStart(l, topic) ==
  LoadStart(l, "messages", topic,
            [renderer.store EXCEPT !.isLoadingMessages = TRUE,
                                   !.error = FALSE])

\* loadMessages: getMessages returns (records of the topic, or none) or
\* fails
LoadMessagesReturn(l, ok, empty) ==
  LoadReturn(l, "messages",
             IF ok
             THEN [renderer.store EXCEPT
                     !.messages = IF empty THEN Null
                                  ELSE renderer.loads[l].topic,
                     !.isLoadingMessages = FALSE]
             ELSE [renderer.store EXCEPT !.error = TRUE,
                                         !.isLoadingMessages = FALSE])

\* ------------------------------------------------------------------------
\* the environment
\* ------------------------------------------------------------------------
\* some other client appends a record to partition p
AppendRecord(p) ==
  /\ watermarks[p].high < MaxHigh
  /\ watermarks' = [watermarks EXCEPT ![p].high = @ + 1]
  /\ UNCHANGED <<instances, tempConsumerGroups, handleState, nextHandle,
                 nextUuid, clusterGroups, fetch, conn, disc, lastOp, crashed,
                 orphans, reset, committed, ipc, renderer>>

\* the process dies and is started again: everything in memory is lost,
\* what is on the cluster stays
Crash ==
  /\ ~crashed
  /\ crashed' = TRUE
  /\ orphans' = {g \in clusterGroups : StartsWith(g, TempGroupPrefix)}
  /\ instances' = [id \in ConnIds |-> NoInstance]
  /\ tempConsumerGroups' = [id \in ConnIds |-> Absent]
  /\ handleState' = [h \in HandleIds |->
                       IF handleState[h] = "unopened" THEN "unopened"
                       ELSE "closed"]
  /\ fetch' = [k \in FetchIds |->
                 IF fetch[k].pc = "free" THEN FreeFetch
                 ELSE [FreeFetch EXCEPT !.pc = "crashed",
                                        !.groupId = fetch[k].groupId]]
  /\ conn' = [c \in ConnectIds |->
                 IF conn[c].pc = "free" THEN FreeConn
                 ELSE [FreeConn EXCEPT !.pc = "crashed"]]
  /\ disc' = [d \in DiscIds |->
                 IF disc[d].pc = "free" THEN FreeDisc
                 ELSE [FreeDisc EXCEPT !.pc = "crashed"]]
  /\ reset' = [r \in ResetIds |->
                  IF reset[r].pc = "free" THEN FreeReset
                  ELSE [FreeReset EXCEPT !.pc = "crashed"]]
  /\ UNCHANGED <<nextHandle, nextUuid, watermarks, clusterGroups, lastOp,
                 committed, ipc, renderer>>

\* ------------------------------------------------------------------------
\* Specifications
\* ------------------------------------------------------------------------
WatermarkChoices ==
  {w \in [Partitions -> [low : 0..MaxHigh, high : 0..MaxHigh]] :
     \A p \in Partitions : w[p].low <= w[p].high}

\* committed offsets: every partition of every topic at the same offset
\* (Undefined: the group has committed nothing)
CommittedAt(o) ==
  [g \in OffsetGroups |-> [t \in Topics |-> [p \in Partitions |-> o]]]

InitCommon ==
  /\ tempConsumerGroups = [id \in ConnIds |-> Absent]
  /\ nextUuid = 1
  /\ fetch = [k \in FetchIds |-> FreeFetch]
  /\ disc = [d \in DiscIds |-> FreeDisc]
  /\ reset = [r \in ResetIds |-> FreeReset]
  /\ lastOp = NoOp
  /\ ipc = NoIpc
  /\ renderer = FreshRenderer
  /\ crashed = FALSE
  /\ orphans = {}

\* the state after construction, on a cluster with one record per partition
Init ==
  /\ InitCommon
  /\ instances = [id \in ConnIds |-> NoInstance]
  /\ handleState = [h \in HandleIds |-> "unopened"]
  /\ nextHandle = 1
  /\ conn = [c \in ConnectIds |-> FreeConn]
  /\ watermarks = [p \in Partitions |-> [low |-> 0, high |-> 1]]
  /\ clusterGroups \in {{ForeignGroup}, {ForeignGroup, LegacyGroup}}
  /\ committed = CommittedAt(Undefined)

FetchActions(k) ==
  \/ \E ok \in BOOLEAN : \E ts \in [Partitions -> 0..MaxHigh] :
       FetchPrecheck(k, ok, ts)
  \/ \E ok \in BOOLEAN : FetchConsumerConnect(k, ok)
  \/ \E ok \in BOOLEAN : FetchSubscribe(k, ok)
  \/ \E fallback \in BOOLEAN : RunThen(k, fallback)
  \/ RunCatch(k)
  \/ \E p \in Partitions : Deliver(k, p)
  \/ IdleTimeout(k)
  \/ OverallTimeout(k)
  \/ \E ok \in BOOLEAN : CleanupDisconnect(k, ok)
  \/ \E ok \in BOOLEAN : CleanupDeleteGroups(k, ok)

ConnectActions(c) ==
  \/ \E ok \in BOOLEAN : \E cause \in Causes : ConnectAdmin(c, ok, cause)
  \/ \E ok \in BOOLEAN : \E cause \in Causes : ConnectProducer(c, ok, cause)
  \/ \E ok \in BOOLEAN : \E listing \in {clusterGroups, {}} : ReaperList(c, ok, listing)
  \/ \E ok \in BOOLEAN : ReaperDelete(c, ok)

DisconnectActions(d) ==
  \/ \E ok \in BOOLEAN : DisconnectDeleteGroups(d, ok)
  \/ \E ok \in BOOLEAN : DisconnectProducer(d, ok)
  \/ \E ok \in BOOLEAN : DisconnectAdmin(d, ok)

\* no connect and no disconnect is under way
SessionCallsSettled ==
  /\ \A c \in ConnectIds : conn[c].pc \in {"free", "done", "crashed"}
  /\ \A d \in DiscIds : disc[d].pc \in {"free", "done", "crashed"}

\* the session lifecycle of one connection: connects and disconnects issued
\* one after the other, and a fetch running beside them
Next ==
  \/ \E c \in ConnectIds : \E found \in BOOLEAN : \E profile \in {"a", "b"} :
       SessionCallsSettled /\ ConnectStart(c, "c1", found, profile)
  \/ \E c \in ConnectIds : ConnectActions(c)
  \/ \E d \in DiscIds : SessionCallsSettled /\ DisconnectStart(d, "c1")
  \/ \E d \in DiscIds : DisconnectActions(d)
  \/ FetchStart(1, "c1", Undefined, Undefined, Undefined, 1)
  \/ FetchActions(1)

Spec == Init /\ [][Next]_vars

\* a crash between a fetch and the next connect
NextCrash ==
  \/ \E c \in ConnectIds : ConnectStart(c, "c1", TRUE, "a")
  \/ \E c \in ConnectIds : ConnectActions(c)
  \/ FetchStart(1, "c1", Undefined, Undefined, Undefined, 1)
  \/ FetchActions(1)
  \/ Crash

SpecCrash == Init /\ [][NextCrash]_vars

\* connect calls for one id that may overlap, over every way the two
\* handshakes can fail
NextConnect ==
  \/ \E c \in ConnectIds : \E profile \in {"a", "b"} :
       ConnectStart(c, "c1", TRUE, profile)
  \/ \E c \in ConnectIds : ConnectActions(c)

SpecConnect == Init /\ [][NextConnect]_vars

\* every service operation, on an id that is connected at times ("c1") and
\* on one that never is ("c2")
NextOps ==
  \/ \E profile \in {"a"} : SessionCallsSettled /\ ConnectStart(1, "c1", TRUE, profile)
  \/ ConnectActions(1)
  \/ SessionCallsSettled /\ DisconnectStart(1, "c1")
  \* no fetch runs on a connected session here, so a disconnect finds no
  \* temporary group and goes from its entry to the producer step
  \/ \E ok \in BOOLEAN : DisconnectProducer(1, ok)
  \/ \E ok \in BOOLEAN : DisconnectAdmin(1, ok)
  \/ FetchStart(1, "c2", Undefined, Undefined, Undefined, 1)
  \/ \E op \in ReadOps \cup TopicOps : \E id \in ConnIds : AdminOp(op, id)
  \/ ResetStart(1, "c2", "analytics", TopicName, "latest", Undefined, Undefined,
                FALSE, {})
  \/ \E id \in ConnIds : ProduceMessage(id, 0)
  \/ \E id \in ConnIds : \E o \in 0..MaxHigh : DeleteRecords(id, 0, o)
  \/ \E id \in ConnIds : \E g \in clusterGroups : DeleteConsumerGroup(id, g)
  \/ \E id \in ConnIds : \E gs \in SUBSET clusterGroups :
       DeleteOrphanedGroups(id, gs)

SpecOps == Init /\ [][NextOps]_vars

\* the session "c1" is open
OpenSession ==
  /\ instances = [id \in ConnIds |->
        IF id = "c1"
        THEN [present |-> TRUE, kafka |-> "a", admin |-> 1, producer |-> 2,
              consumers |-> {}]
        ELSE NoInstance]
  /\ handleState = [h \in HandleIds |-> IF h <= 2 THEN "connected" ELSE "unopened"]
  /\ nextHandle = 3
  /\ conn = [c \in ConnectIds |->
        IF c = 1
        THEN [FreeConn EXCEPT !.pc = "done", !.conn = "c1", !.profile = "a",
                              !.admin = 1, !.producer = 2,
                              !.outcome = "ok", !.listed = {ForeignGroup},
                              !.reaper = "nothing"]
        ELSE FreeConn]

\* one fetch on an open session, over every request and every topic content
InitFetch ==
  /\ InitCommon
  /\ OpenSession
  /\ watermarks \in WatermarkChoices
  /\ clusterGroups = {ForeignGroup}
  /\ committed = CommittedAt(Undefined)

\* start offset / start timestamp pairs of the requests
StartChoices ==
  {<<o, Undefined>> : o \in {Undefined} \cup 0..MaxHigh}
    \cup {<<Undefined, 0>>, <<Undefined, 1>>, <<1, 1>>, <<1, 0>>}

NextFetch ==
  \/ \E id \in ConnIds :
       \E partition \in {Undefined, 0, NoSuchPartition} :
         \E start \in StartChoices :
           \E limit \in {Undefined} \cup 0..MaxLimit :
             FetchStart(1, id, partition, start[1], start[2], limit)
  \/ FetchActions(1)
  \/ \E p \in Partitions : fetch[1].run = "running" /\ AppendRecord(p)

SpecFetch == InitFetch /\ [][NextFetch]_vars

\* two getMessages calls on one open session that may overlap, on a topic
\* with one record in each partition
InitTwoFetch ==
  /\ InitCommon
  /\ OpenSession
  /\ watermarks = [p \in Partitions |-> [low |-> 0, high |-> 1]]
  /\ clusterGroups = {ForeignGroup}
  /\ committed = CommittedAt(Undefined)

NextTwoFetch ==
  \/ \E k \in FetchIds : \E limit \in 1..MaxLimit :
       FetchStart(k, "c1", Undefined, Undefined, Undefined, limit)
  \/ \E k \in FetchIds : FetchActions(k)

SpecTwoFetch == InitTwoFetch /\ [][NextTwoFetch]_vars

\* one resetOffsets on an open session, over every request, while records
\* are appended to the topic
InitReset ==
  /\ InitCommon
  /\ OpenSession
  /\ watermarks \in {w \in WatermarkChoices : w[1] = [low |-> 0, high |-> 1]}
  /\ clusterGroups = {ForeignGroup}
  /\ committed \in {CommittedAt(Undefined), CommittedAt(1)}

\* timestamp / offset pairs of the requests
AnchorChoices ==
  {<<Undefined, Undefined>>, <<0, Undefined>>, <<1, Undefined>>,
   <<Undefined, EmptyString>>, <<Undefined, 0>>, <<Undefined, BeyondHigh>>}

\* explicit partition subsets of the requests (FALSE: none given)
PartitionChoices ==
  {<<FALSE, {}>>} \cup {<<TRUE, ps>> : ps \in SUBSET Partitions}

NextReset ==
  \/ \E groupId \in OffsetGroups : \E topic \in Topics :
       \E type \in ResetTypes \cup {"bogus"} :
         \E anchor \in AnchorChoices : \E parts \in PartitionChoices :
           ResetStart(1, "c1", groupId, topic, type, anchor[1], anchor[2],
                      parts[1], parts[2])
  \/ \E ok \in BOOLEAN : ResetTopicOffsets(1, ok)
  \/ \E ok \in BOOLEAN :
       \E ps \in SUBSET Partitions : \E byTimestamp \in [ps -> 0..MaxHigh] :
         ResetByTimestamp(1, ok, byTimestamp)
  \/ \E ok \in BOOLEAN : ResetSetOffsets(1, ok)
  \/ \E p \in Partitions : AppendRecord(p)

SpecReset == InitReset /\ [][NextReset]_vars

\* calls through the IPC boundary, on every channel of both handler sets
\* and with every outcome of the service call
NextIpc ==
  \/ \E set \in HandlerSets : \E channel \in Channels(set) :
       \E svc \in ServiceResults : IpcCall(set, channel, svc)
  \/ \E set \in HandlerSets : \E found \in BOOLEAN :
       \E svc \in ServiceResults : IpcConnect(set, found, svc)
  \/ \E set \in HandlerSets : \E svc \in ServiceResults :
       IpcTestConnection(set, svc)

SpecIpc == Init /\ [][NextIpc]_vars

\* the topic view: the user selects topics, and the view loads the
\* metadata and the messages of the topic that is selected
NextStore ==
  \/ \E topic \in StoreTopics \cup {Null} : SelectTopic(topic)
  \/ ClearMessages
  \/ \E l \in LoadIds :
       /\ renderer.store.selectedTopic # Null
       /\ LoadTopicMetadataStart(l, renderer.store.selectedTopic)
  \/ \E l \in LoadIds : \E ok \in BOOLEAN : LoadTopicMetadataReturn(l, ok)
  \/ \E l \in LoadIds :
       /\ renderer.store.selectedTopic # Null
       /\ LoadMessagesStart(l, renderer.store.selectedTopic)
  \/ \E l \in LoadIds : \E ok \in BOOLEAN : \E empty \in BOOLEAN :
       LoadMessagesReturn(l, ok, empty)

SpecStore == Init /\ [][NextStore]_vars

\* ------------------------------------------------------------------------
\* Properties of getMessages (SpecFetch)
\* ------------------------------------------------------------------------
Settled(f) == f.outcome \in {"resolved", "rejected"}

\* the records available at pre-check: the sum over the target partitions of
\* the records between the start offset and the high watermark
AvailableAtPrecheck(f) == TotalExpected(f.seekMap)

\* C1: a call that created an ephemeral group has, once settled, issued
\* exactly one deleteGroups request for it and left it untracked, whatever
\* the outcome of the cleanup steps
C1_GroupDeletedOnceAndUntracked ==
  \A k \in FetchIds :
    (fetch[k].groupId # NoGroup /\ Settled(fetch[k]))
      => /\ fetch[k].deleteGroupsIssued = 1
         /\ fetch[k].groupId \notin Tracked(fetch[k].conn)

\* C2: within one call the promise is resolved or rejected at most once and
\* the cleanup body runs at most once, whatever the order in which record
\* callbacks, the timers and a run() rejection fire
C2_SettledOnce ==
  \A k \in FetchIds :
    /\ fetch[k].settleCalls <= 1
    /\ fetch[k].cleanupBodies <= 1

\* run() rejected after the overall timer had already resolved the call
C2_Witness ==
  \E k \in FetchIds :
    /\ fetch[k].outcome = "resolved"
    /\ fetch[k].run = "rejected"
    /\ fetch[k].settleCalls = 1
    /\ fetch[k].cleanupBodies = 1

\* the bounds of a successful fetch against its cap and the available records
FetchBounds(f) ==
  LET returned == Len(f.messages)
      cap == f.maxLimit
      available == AvailableAtPrecheck(f)
  IN /\ returned <= cap
     /\ returned <= available
     /\ (returned = cap /\ cap < available) => f.hasMore
     /\ (returned = available /\ available < cap) => ~f.hasMore

\* C3 as stated: every successful fetch keeps the bounds
C3_BoundsForEveryCap ==
  \A k \in FetchIds : fetch[k].outcome = "resolved" => FetchBounds(fetch[k])

\* C3 amended: every successful fetch with a cap of at least 1 returns at
\* most cap and at most available records, reports hasMore when it returned
\* cap < available records and no hasMore when it returned available < cap
C3_BoundsForPositiveCap ==
  \A k \in FetchIds :
    (fetch[k].outcome = "resolved" /\ fetch[k].maxLimit >= 1)
      => FetchBounds(fetch[k])

\* a fetch over two partitions stopped by the cap with records left
C3_Witness ==
  \E k \in FetchIds :
    /\ fetch[k].outcome = "resolved"
    /\ fetch[k].maxLimit >= 1
    /\ Len(fetch[k].messages) = fetch[k].maxLimit
    /\ fetch[k].maxLimit < AvailableAtPrecheck(fetch[k])
    /\ Cardinality(DOMAIN fetch[k].seekMap) = 2
    /\ fetch[k].hasMore

\* C4: a request whose pre-check demand, clamped to the cap, is 0 returns an
\* empty result with hasMore = false and opens no consumer and no group
C4_ZeroDemandOpensNoConsumer ==
  \A k \in FetchIds :
    (/\ fetch[k].topicOffsets # EmptyMap
     /\ Min(AvailableAtPrecheck(fetch[k]), fetch[k].maxLimit) = 0)
      => /\ fetch[k].outcome = "resolved"
         /\ fetch[k].messages = <<>>
         /\ ~fetch[k].hasMore
         /\ fetch[k].groupId = NoGroup
         /\ fetch[k].consumer = "none"

\* C5: once the overall timer of a call is gone (fired or cleared) and no
\* cleanup step is outstanding, the call has settled, whatever the outcome
\* of the cleanup steps
C5_SettledAfterCleanup ==
  \A k \in FetchIds :
    (/\ fetch[k].groupId # NoGroup
     /\ fetch[k].pc \in {"promise", "catch", "done"}
     /\ ~fetch[k].overallTimer
     /\ fetch[k].cleanup \notin {"disconnecting", "deleting"})
      => Settled(fetch[k])

\* ------------------------------------------------------------------------
\* Properties of the session registry (Spec)
\* ------------------------------------------------------------------------
\* C6: connect on an id whose session is registered opens no handle, leaves
\* the registry and its handles as they are and returns successfully, also
\* with a different profile; connects that follow one another without a
\* failure or a disconnect open one admin / producer pair in all
C6_ConnectIdempotent ==
  /\ [][\A c \in ConnectIds :
          (/\ conn[c].pc = "free"
           /\ conn'[c].pc # "free"
           /\ conn'[c].error # "Connection not found"
           /\ HasInstance(conn'[c].conn))
            => /\ instances' = instances
               /\ handleState' = handleState
               /\ nextHandle' = nextHandle
               /\ conn'[c].noop
               /\ conn'[c].admin = 0
               /\ conn'[c].producer = 0]_vars
  /\ [](\A c \in ConnectIds :
          /\ (conn[c].noop /\ conn[c].pc = "done") => conn[c].outcome = "ok"
          /\ conn[c].noop => conn[c].pc \in {"listGroups", "deleteOrphans", "done"})
  /\ []((/\ \A d \in DiscIds : disc[d].pc = "free"
         /\ \A c \in ConnectIds : conn[c].error = "none")
          => nextHandle <= 3)

\* a second connect with another profile returned as a no-op
C6_Witness ==
  \E c \in ConnectIds :
    /\ conn[c].noop
    /\ conn[c].pc = "done"
    /\ conn[c].outcome = "ok"
    /\ HasInstance(conn[c].conn)
    /\ instances[conn[c].conn].kafka # conn[c].profile
    /\ nextHandle = 3

TeardownSteps == {"cleanupGroups", "producer", "admin"}

\* the events of a sequence, as a set
Events(t) == {t[i] : i \in DOMAIN t}

\* C7: disconnect never throws; on an absent id it changes nothing, and on
\* an open session every teardown step is attempted whatever failed before
\* it and the session is gone from the registry when disconnect returns
C7_DisconnectCompletes ==
  /\ [][\A d \in DiscIds :
          (/\ disc[d].pc = "free"
           /\ disc'[d].pc # "free"
           /\ ~HasInstance(disc'[d].conn))
            => /\ disc'[d].pc = "done"
               /\ disc'[d].noop
               /\ UNCHANGED <<instances, tempConsumerGroups, handleState,
                              clusterGroups>>]_vars
  /\ [][\A d \in DiscIds :
          (disc[d].pc # "done" /\ disc'[d].pc = "done" /\ ~disc'[d].noop)
            => ~instances'[disc'[d].conn].present]_vars
  /\ [](\A d \in DiscIds :
          /\ disc[d].pc # "threw"
          /\ (disc[d].pc = "done" /\ ~disc[d].noop)
               => /\ {"producer", "admin", "removed"} \subseteq Events(disc[d].trace)
                  /\ disc[d].groups # {} => "cleanupGroups" \in Events(disc[d].trace))

\* a disconnect that returned although every teardown step failed
C7_Witness ==
  \E d \in DiscIds :
    /\ disc[d].pc = "done"
    /\ disc[d].failed = TeardownSteps
    /\ disc[d].errors = 2
    /\ ~HasInstance(disc[d].conn)

Rank(e) ==
  CASE e = "consumers" -> 1
    [] e = "cleanupGroups" -> 2
    [] e = "producer" -> 3
    [] e = "admin" -> 4
    [] OTHER -> 5

ServiceState == <<instances, tempConsumerGroups, handleState, clusterGroups,
                  watermarks, committed>>

\* a call of getMessages on an id without a session fails with the
\* not-connected error and touches nothing
GetMessagesGuarded ==
  \A k \in FetchIds :
    (/\ fetch[k].pc = "free"
     /\ fetch'[k].pc # "free"
     /\ ~HasInstance(fetch'[k].conn))
      => /\ fetch'[k].outcome = "rejected"
         /\ fetch'[k].error = "NotConnected"
         /\ fetch'[k].groupId = NoGroup
         /\ UNCHANGED ServiceState

C10_OrphansReaped ==
  \A c \in ConnectIds :
    (/\ crashed
     /\ conn[c].pc = "done"
     /\ conn[c].reaper \in {"nothing", "deleted"})
      => orphans \cap conn[c].listed \cap clusterGroups = {}

\* ------------------------------------------------------------------------
\* Properties of a fetch beside a disconnect (Spec)
\* ------------------------------------------------------------------------
\* C11: a getMessages call that was in flight (temporary consumer connected,
\* promise not settled) from the start of a disconnect of its connection to
\* the removal of the session never settles with a success result
C11_RacedFetchFails ==
  \A d \in DiscIds : \A k \in disc[d].raced : fetch[k].outcome # "resolved"

\* ------------------------------------------------------------------------
\* Further properties of getMessages (SpecFetch)
\* ------------------------------------------------------------------------
\* C12: once a call has settled neither its idle timer nor its overall timer
\* is armed, whatever the order of the run() callback, the record callbacks
\* and the timers
C12_NoTimerAfterSettled ==
  \A k \in FetchIds :
    Settled(fetch[k]) => ~fetch[k].idleTimer /\ ~fetch[k].overallTimer

\* C13: a call that failed in consumer setup or through a run() rejection
\* has, when it rejects, disconnected its consumer, attempted the deletion
\* of its group and untracked the group id
C13_RejectedAfterCleanup ==
  \A k \in FetchIds :
    (fetch[k].outcome = "rejected" /\ fetch[k].via \in {"setup", "run"})
      => /\ fetch[k].consumer = "disconnected"
         /\ fetch[k].deleteGroupsIssued >= 1
         /\ fetch[k].groupId \notin Tracked(fetch[k].conn)

\* C14: a fetch stopped by the count cap reports hasMore, the offset after
\* its last collected record and that record's partition; a result without
\* hasMore carries no resumption token
C14_ResumptionToken ==
  \A k \in FetchIds :
    LET f == fetch[k]
        n == Len(f.messages)
    IN f.outcome = "resolved"
         => /\ (f.via = "finish" /\ f.hasMoreArg)
                 => /\ f.hasMore
                    /\ n > 0
                    /\ f.nextOffset = f.messages[n].offset + 1
                    /\ f.nextPartition = f.messages[n].partition
            /\ ~f.hasMore
                 => f.nextOffset = Undefined /\ f.nextPartition = Undefined

\* C15: a result with hasMore has left records behind (more were available
\* at pre-check than were returned), and a result that returned every
\* available record has no hasMore
C15_HasMoreMeansMore ==
  \A k \in FetchIds :
    LET f == fetch[k] IN
    f.outcome = "resolved"
      => /\ f.hasMore => AvailableAtPrecheck(f) > Len(f.messages)
         /\ Len(f.messages) = AvailableAtPrecheck(f) => ~f.hasMore

\* ------------------------------------------------------------------------
\* Properties of resetOffsets (SpecReset)
\* ------------------------------------------------------------------------
\* the partitions a request selects
Selected(s) == IF s.given THEN s.optPartitions ELSE Partitions

\* the required anchor value of the request is present
AnchorPresent(s) ==
  \/ s.type \in {"earliest", "latest"}
  \/ s.type = "timestamp" /\ s.timestamp >= 0
  \/ s.type = "offset" /\ s.offset >= 0

ValidationErrors == {"Timestamp required", "Offset required", "Invalid reset type"}

\* C16: a request whose anchor value is present (any timestamp >= 0, any
\* offset) is not refused by validation, and the offsets it asks the cluster
\* to commit are, for exactly the selected partitions: the low watermark
\* (earliest), the high watermark (latest), the lookup result or 0 without
\* one (timestamp), the literal offset (offset)
C16_TargetsResolved ==
  \A r \in ResetIds :
    LET s == reset[r] IN
    (AnchorPresent(s) /\ s.topicOffsets # EmptyMap)
      => /\ s.error \notin ValidationErrors
         /\ s.setOffsetsCalls > 0
              => /\ DOMAIN s.newOffsets = Selected(s)
                 /\ \A p \in Selected(s) :
                      s.newOffsets[p] =
                        CASE s.type = "earliest" -> s.topicOffsets[p].low
                          [] s.type = "latest" -> s.topicOffsets[p].high
                          [] s.type = "timestamp" ->
                               IF p \in DOMAIN s.byTimestamp
                               THEN s.byTimestamp[p] ELSE 0
                          [] OTHER -> s.offset

\* the request lacks the value its anchor needs, or names no known anchor
Malformed(s) ==
  \/ s.type = "timestamp" /\ s.timestamp = Undefined
  \/ s.type = "offset" /\ s.offset = Undefined
  \/ s.type \notin ResetTypes

\* C17: a request with a timestamp anchor and no timestamp, an offset anchor
\* and no offset, or an unknown anchor type fails (once the watermark read
\* has answered, with the validation error of its case); setOffsets is never
\* invoked and the committed offsets stay as they were
C17_MalformedNeverCommits ==
  \A r \in ResetIds :
    LET s == reset[r] IN
    (s.pc # "free" /\ Malformed(s))
      => /\ s.setOffsetsCalls = 0
         /\ committed = s.before
         /\ s.pc \in {"fetchTopicOffsets", "done"}
         /\ s.pc = "done"
              => /\ s.outcome = "rejected"
                 /\ s.topicOffsets # EmptyMap
                      => s.error =
                           CASE s.type = "timestamp" -> "Timestamp required"
                             [] s.type = "offset" -> "Offset required"
                             [] OTHER -> "Invalid reset type"

\* an offset anchor without an offset was refused on a group that had
\* committed offsets
C17_Witness ==
  \E r \in ResetIds :
    /\ reset[r].type = "offset"
    /\ reset[r].offset = Undefined
    /\ reset[r].error = "Offset required"
    /\ committed = CommittedAt(1)

\* C18: a successful reset has invoked setOffsets once, with one entry per
\* selected partition and no other; the named group's offsets of the named
\* topic are the new ones on the selected partitions, and every other
\* committed offset (other partitions, topics, groups) is what it was
C18_SingleCommitFrame ==
  \A r \in ResetIds :
    LET s == reset[r] IN
    s.outcome = "resolved"
      => /\ s.setOffsetsCalls = 1
         /\ DOMAIN s.newOffsets = Selected(s)
         /\ \A g \in OffsetGroups : \A t \in Topics : \A p \in Partitions :
              committed[g][t][p] =
                IF g = s.groupId /\ t = s.topic /\ p \in Selected(s)
                THEN s.newOffsets[p]
                ELSE s.before[g][t][p]

\* { type: 'offset', offset, partitions: [0] } on a group without offsets:
\* partition 0 is at the offset, partition 1 still has none
C18_Witness ==
  \E r \in ResetIds :
    LET s == reset[r] IN
    /\ s.outcome = "resolved"
    /\ s.type = "offset"
    /\ s.given /\ s.optPartitions = {0}
    /\ s.offset = BeyondHigh
    /\ committed[s.groupId][s.topic][0] = BeyondHigh
    /\ committed[s.groupId][s.topic][1] = Undefined

\* C19 as stated: after a successful reset to latest the committed offset of
\* every selected partition is the partition's current high watermark, also
\* when records were appended since the reset read the watermarks
C19_LatestIsCurrentHigh ==
  \A r \in ResetIds :
    LET s == reset[r] IN
    (s.outcome = "resolved" /\ s.type = "latest")
      => \A p \in Selected(s) :
           committed[s.groupId][s.topic][p] = TopicOffsets(s.topic)[p].high

\* C19 amended: after a successful reset to latest the committed offset of
\* every selected partition is the high watermark the reset read for it; it
\* is the current high watermark unless a record was appended to the
\* partition since that read, and lower otherwise
C19_LatestIsHighRead ==
  \A r \in ResetIds :
    LET s == reset[r] IN
    (s.outcome = "resolved" /\ s.type = "latest")
      => \A p \in Selected(s) :
           /\ committed[s.groupId][s.topic][p] = s.topicOffsets[p].high
           /\ committed[s.groupId][s.topic][p] <= TopicOffsets(s.topic)[p].high
           /\ TopicOffsets(s.topic)[p].high = s.topicOffsets[p].high
                => committed[s.groupId][s.topic][p] = TopicOffsets(s.topic)[p].high

\* a reset to latest of both partitions, one of which has since grown
C19_Witness ==
  \E r \in ResetIds :
    LET s == reset[r] IN
    /\ s.outcome = "resolved"
    /\ s.type = "latest"
    /\ s.topic = TopicName
    /\ Selected(s) = Partitions
    /\ committed[s.groupId][s.topic][0] < watermarks[0].high
    /\ committed[s.groupId][s.topic][1] = watermarks[1].high
    /\ watermarks[1].high > watermarks[1].low

\* ------------------------------------------------------------------------
\* Further properties of the orphan reaper (Spec)
\* ------------------------------------------------------------------------
ReaperFailures == {"listFailed", "deleteFailed", "notConnected"}

\* C20: a kafka:connect whose reaper failed, in listing the groups or in
\* deleting the orphaned ones, still reports success, and the step in which
\* it fails leaves the session registered with its handles connected
C20_ReaperNeverFailsConnect ==
  /\ [](\A c \in ConnectIds :
          conn[c].reaper \in ReaperFailures
            => conn[c].pc = "done" /\ conn[c].outcome = "ok")
  /\ [][\A c \in ConnectIds :
          (conn[c].reaper = "none" /\ conn'[c].reaper \in ReaperFailures)
            => /\ instances' = instances
               /\ handleState' = handleState
               /\ instances'[conn'[c].conn].present
               /\ handleState'[instances'[conn'[c].conn].admin] = "connected"
               /\ handleState'[instances'[conn'[c].conn].producer] = "connected"]_vars

\* the listing failed in one connect and the deletion in another, and both
\* returned successfully
C20_Witness ==
  /\ \E c \in ConnectIds :
       /\ conn[c].reaper = "deleteFailed"
       /\ conn[c].outcome = "ok"
       /\ conn[c].orphaned = {LegacyGroup}
  /\ \E c \in ConnectIds :
       /\ conn[c].reaper = "listFailed"
       /\ conn[c].outcome = "ok"
  /\ HasInstance("c1")

\* ------------------------------------------------------------------------
\* Properties of the IPC boundary (SpecIpc)
\* ------------------------------------------------------------------------
\* C21: every call through a handler ends with a returned outcome, a
\* success or a failure value that carries a message; no handler ends by
\* throwing
C21_StructuredOutcome ==
  ipc.kind # "none"
    => /\ ipc.kind = "returned"
       /\ ~ipc.success => ipc.error # NoMessage

\* ------------------------------------------------------------------------
\* Properties of the seeks and of the partition filter (SpecFetch)
\* ------------------------------------------------------------------------
\* C22: in every getMessages call that opens a consumer no seek is issued
\* before run() has resolved, once it has resolved a seek has been issued
\* for every partition of the seek map, and the idle timer is never armed
\* before those seeks
C22_SeeksAfterRunBeforeIdleTimer ==
  \A k \in FetchIds :
    LET f == fetch[k] IN
    /\ f.seeksIssued # {} => f.run = "running"
    /\ f.run = "running" => f.seeksIssued = DOMAIN f.seekMap
    /\ f.idleTimer => f.run = "running" /\ f.seeksIssued = DOMAIN f.seekMap

\* a call on both partitions whose loop has started: two seeks issued, the
\* idle timer armed, nothing collected yet
C22_Witness ==
  \E k \in FetchIds :
    LET f == fetch[k] IN
    /\ f.run = "running"
    /\ f.seeksIssued = Partitions
    /\ f.idleTimer
    /\ ~f.resolved
    /\ f.messageCount = 0

\* C23: with a partition filter, a record arriving on another partition
\* changes nothing in the fetch but the consumer's position on that
\* partition: result, count, last offset / partition, timers and
\* settlement stay as they were
C23_FilteredRecordChangesNothing ==
  [][\A k \in FetchIds : \A p \in Partitions :
       (/\ Deliver(k, p)
        /\ fetch[k].partition # Undefined
        /\ p # fetch[k].partition)
         => fetch'[k] = [fetch[k] EXCEPT !.pos = fetch'[k].pos]]_vars

\* a fetch filtered on partition 0 whose consumer has passed a record of
\* partition 1, with nothing collected and the call still pending
C23_Witness ==
  \E k \in FetchIds :
    LET f == fetch[k] IN
    /\ f.partition = 0
    /\ f.run = "running"
    /\ f.pos[1] > watermarks[1].low
    /\ f.messages = <<>>
    /\ f.lastOffset = Undefined
    /\ ~f.resolved

\* C24: when a start offset and a start timestamp are both present the
\* start of every target partition is the offset of the timestamp lookup;
\* with a start offset alone it is that offset; with neither it is the
\* partition's low watermark
C24_StartPrecedence ==
  \A k \in FetchIds :
    LET f == fetch[k] IN
    f.topicOffsets # EmptyMap =>
      \A p \in TargetPartitions(f.partition, f.topicOffsets) :
        /\ p \in DOMAIN f.seekMap
        /\ IF f.fromOffset # Undefined /\ f.fromTimestamp # Undefined
           THEN /\ p \in DOMAIN f.timestampOffsets
                /\ f.seekMap[p].seekOffset = f.timestampOffsets[p]
           ELSE IF f.fromOffset # Undefined
           THEN f.seekMap[p].seekOffset = f.fromOffset
           ELSE IF f.fromTimestamp = Undefined
           THEN f.seekMap[p].seekOffset = f.topicOffsets[p].low
           ELSE TRUE

\* C25: every record of a result lies on a partition of the seek map, at or
\* after the start offset computed for that partition at pre-check
C25_RecordsAtOrAfterStart ==
  \A k \in FetchIds :
    LET f == fetch[k] IN
    f.outcome = "resolved" =>
      \A i \in DOMAIN f.messages :
        /\ f.messages[i].partition \in DOMAIN f.seekMap
        /\ f.messages[i].offset >= f.seekMap[f.messages[i].partition].seekOffset

\* ------------------------------------------------------------------------
\* Properties of connect (SpecConnect)
\* ------------------------------------------------------------------------
\* the connect calls that failed in a handshake
FailedHandshake(r) ==
  r.outcome = "error" /\ r.error \in {"admin.connect", "producer.connect"}

\* C26: when connect fails in a handshake the error it surfaces carries the
\* message mapTlsError gives for the cause, as testConnection does, not the
\* message of the library
C26_ConnectErrorMapped ==
  \A c \in ConnectIds :
    FailedHandshake(conn[c]) => conn[c].message = MapTlsError(conn[c].cause)

\* handle h is held by the session registered for some id
Owned(h) ==
  \E id \in ConnIds :
    instances[id].present /\ h \in {instances[id].admin, instances[id].producer}

\* handle h belongs to connect call c
HandleOf(c, h) == h \in {conn[c].admin, conn[c].producer}

\* C28: every connected handle is held by the registered session or belongs
\* to a connect call that has not returned yet, also when two connect calls
\* for one id overlap (handles of calls that failed are left to C29)
C28_OnePairPerConnection ==
  \A h \in HandleIds :
    handleState[h] = "connected" =>
      \/ Owned(h)
      \/ \E c \in ConnectIds :
           /\ HandleOf(c, h)
           /\ \/ conn[c].pc \in {"adminConnect", "producerConnect"}
              \/ FailedHandshake(conn[c])

\* C29: after a connect that failed in a handshake no session is registered
\* for the id by that call and no handle of that call is connected
C29_FailedConnectLeavesNothing ==
  \A c \in ConnectIds :
    FailedHandshake(conn[c]) =>
      /\ handleState[conn[c].admin] # "connected"
      /\ handleState[conn[c].producer] # "connected"
      /\ ~(instances[conn[c].conn].present
             /\ instances[conn[c].conn].admin = conn[c].admin)

\* ------------------------------------------------------------------------
\* Properties of overlapping fetches (SpecTwoFetch)
\* ------------------------------------------------------------------------
\* the calls that created a consumer
HasGroup(k) == fetch[k].groupId # NoGroup

\* each call has its own group id, tracked until its own cleanup has run
\* to its end
OwnGroupTracked ==
  \A k \in FetchIds :
    HasGroup(k) =>
      /\ \A j \in FetchIds \ {k} : fetch[j].groupId # fetch[k].groupId
      /\ fetch[k].cleanup # "done" => fetch[k].groupId \in Tracked(fetch[k].conn)

\* a step of call k leaves the other calls as they are, adds to its result
\* only the record at its own consumer's position, and deletes and untracks
\* no group but its own
OwnStep(k) ==
  fetch'[k] # fetch[k] =>
    /\ \A j \in FetchIds \ {k} : fetch'[j] = fetch[j]
    /\ fetch'[k].messages # fetch[k].messages =>
         \E p \in Partitions :
           fetch'[k].messages =
             Append(fetch[k].messages,
                    [partition |-> p, offset |-> fetch[k].pos[p]])
    /\ clusterGroups \ clusterGroups' \subseteq {fetch[k].groupId}
    /\ \A id \in ConnIds :
         Tracked(id) \ {fetch[k].groupId} \subseteq Tracked(id)'

\* C27: two getMessages calls overlapping on one connection are isolated:
\* distinct group ids, a result made of the records delivered to the call's
\* own consumer, and a cleanup that deletes and untracks only its own
\* group, the other call's group staying tracked until its own cleanup
C27_OverlappingFetchesIsolated ==
  []OwnGroupTracked /\ [][\A k \in FetchIds : OwnStep(k)]_vars

\* one call has been cleaned up, its group deleted and untracked, while the
\* other is pending with a record collected and its group tracked
C27_Witness ==
  \E k \in FetchIds : \E j \in FetchIds \ {k} :
    /\ HasGroup(k) /\ HasGroup(j)
    /\ fetch[k].cleanup = "done"
    /\ fetch[k].groupId \notin Tracked("c1")
    /\ fetch[k].groupId \notin clusterGroups
    /\ fetch[j].outcome = "pending"
    /\ fetch[j].messageCount = 1
    /\ fetch[j].groupId \in Tracked("c1")
    /\ fetch[j].groupId \in clusterGroups

\* ------------------------------------------------------------------------
\* Properties of the renderer's topic store (SpecStore)
\* ------------------------------------------------------------------------
\* C30: the messages and the topic metadata held in the store belong to
\* the selected topic, also when the topic selection changes while a load
\* for the topic selected before is in flight
C30_StateOfSelectedTopic ==
  /\ renderer.store.messages \in {Null, renderer.store.selectedTopic}
  /\ renderer.store.topicMetadata \in {Null, renderer.store.selectedTopic}

====
